---- MODULE Spec2Model ----
(***************************************************************************)
(* Multilayer perceptron of package neuralNetwork (src/unnamed/part_000):  *)
(* construction, Fit (epoch and minibatch loops), the forward pass with    *)
(* its reused per-layer buffers, backprop (regularization, clipping,       *)
(* update), Predict, the classifier's thresholding Predict, and Score.     *)
(*                                                                         *)
(* Numbers.  float64 values are modelled by exact integers in fixed units: *)
(*   - activations, targets and predictions: tenths (1.0 is One = 10,      *)
(*     0.5 is Half = 5);                                                   *)
(*   - weights (Theta, Update): integers;                                  *)
(*   - gradients: units of 1/(RatioDen*nSamples), so that Alpha/nSamples   *)
(*     times an integer is the integer Alpha*RatioDen times it;            *)
(*   - losses (J, JFirst, Jsum, R): units of 1/(2*RatioDen*nSamples);      *)
(*   - L1Ratio is L1Num/RatioDen.                                          *)
(* The numeric kernels of other packages (activations, losses, the         *)
(* optimizer, the data itself) are functions of a seed the caller picks.   *)
(* Matrices are 0-based functions [row -> [col -> value]], as in the Go    *)
(* code; a Go slice is a 1-based sequence holding its whole capacity.      *)
(***************************************************************************)
EXTENDS Integers, Sequences, FiniteSets, TLC

VARIABLES
    regr,    \* the MLPRegressor's fields (kind tells MLPClassifier apart)
    layers,  \* regr.Layers: sequence of Layer records, input side first
    pc,      \* position of the caller: "idle", "epochs", "batch", "done"
    fit,     \* locals of Fit / fitEpoch while a Fit is running
    hist,    \* observations of the running Fit (what was asked, what ran)
    bp,      \* per-layer intermediate values of the last backprop call
    call     \* the last Predict / Score call as its caller sees it

vars == <<regr, layers, pc, fit, hist, bp, call>>

----------------------------------------------------------------------------
(* Bounds of the model *)

MaxSamples == 3      \* small datasets have 1..MaxSamples rows
MaxEpochs == 2       \* explicit Epochs go up to this; longer runs are cut here
MaxRows == 2         \* Predict / Score are called with 1..MaxRows rows
NSeeds == 2          \* number of data seeds
RatioDen == 2        \* L1Ratio is a multiple of 1/RatioDen
MaxBatches == 500    \* a large dataset is fitted in about MaxBatches minibatches

(* Program constants *)

AutoEpochBudget == 1000000   \* 1e6 in Fit
AutoBatchMax == 200          \* default minibatch size cap in fitEpoch
Half == 5                    \* .5 in MLPClassifier.Predict, in tenths

One == 2 * Half

Seeds == 0 .. (NSeeds - 1)

----------------------------------------------------------------------------
(* Arithmetic helpers *)

Abs(x) == IF x < 0 THEN -x ELSE x

RECURSIVE SumTo(_, _)
\* f[0] + ... + f[n-1]
SumTo(f, n) == IF n <= 0 THEN 0 ELSE f[n - 1] + SumTo(f, n - 1)

Sq(x) == x * x

\* the row (column) indices of a matrix of n rows (columns)
Idx(n) == 0 .. (n - 1)

\* mat.Sum of a rows x cols matrix
MatSum(m, rows, cols) ==
    SumTo([i \in Idx(rows) |-> SumTo([j \in Idx(cols) |-> m[i][j]], cols)], rows)

\* float64 values J can hold: a finite number or +Inf
Fin(v) == [inf |-> FALSE, v |-> v]
PosInf == [inf |-> TRUE, v |-> 0]

sgn(x) == IF x > 0 THEN 1 ELSE IF x < 0 THEN -1 ELSE 0

----------------------------------------------------------------------------
(* Kernels of other packages, as functions of a seed *)

RawValues == <<4, 5, 6, 0, 10, -3>>

\* NewActivation(a).Func: the value written to Ypred[i][j] of layer l
ActOut(seed, l, i, j) == RawValues[((seed + l + i + j) % Len(RawValues)) + 1]

\* rnd(): the initial weight Theta[i][j] of layer l
ThetaInit(seed, l, i, j) == ((seed + l + 2 * i + j) % 4) - 1

\* [1 X].T * Ydiff: the data gradient of layer l, an integer
DataGrad(seed, l, i, j) == ((seed + 2 * l + i + 3 * j) % 5) - 2

\* NewLoss(name).Loss: the loss value of a minibatch, an integer
LossVal(seed) == (seed % 3) + 1

\* Optimizer.GetUpdate(Update, Grad): a unit step against the gradient's sign
GetUpdate(grad, rows, cols) ==
    [i \in Idx(rows) |-> [j \in Idx(cols) |-> -sgn(grad.m[i][j])]]

\* base.MatFirstRowZeroed{Matrix: Theta}
MatFirstRowZeroed(m, rows, cols) ==
    [i \in Idx(rows) |-> [j \in Idx(cols) |-> IF i = 0 THEN 0 ELSE m[i][j]]]

----------------------------------------------------------------------------
(* Construction *)

\* NewMLPRegressor(hiddenLayerSizes, activation, solver, Alpha)
NewMLPRegressor(hiddenLayerSizes, activation, solver, Alpha) ==
    LET act == IF activation = "" THEN "relu" ELSE activation
        slv == IF solver = "" THEN "adam" ELSE solver
    IN  [kind |-> "regressor",
         Shuffle |-> TRUE,
         Optimizer |-> slv,
         LossName |-> "",
         Activation |-> act,
         HiddenLayerSizes |-> hiddenLayerSizes,
         Alpha |-> Alpha,
         L1Num |-> 0,
         GradientClipping |-> 0,
         Epochs |-> 0,
         MiniBatchSize |-> 0,
         Loss |-> IF act # "identity" THEN "log" ELSE "square",
         J |-> Fin(0),
         JFirst |-> Fin(0)]

\* NewMLPClassifier(hiddenLayerSizes, activation, solver, Alpha)
NewMLPClassifier(hiddenLayerSizes, activation, solver, Alpha) ==
    [NewMLPRegressor(hiddenLayerSizes, activation, solver, Alpha)
        EXCEPT !.kind = "classifier", !.Loss = "log"]

\* The exported fields a caller sets between construction and Fit.
Configure(r, lossName, loss, l1num, clip, epochs, mbs) ==
    [r EXCEPT !.LossName = lossName,
              !.Loss = IF loss = "" THEN r.Loss ELSE loss,
              !.L1Num = l1num,
              !.GradientClipping = clip,
              !.Epochs = epochs,
              !.MiniBatchSize = mbs]

----------------------------------------------------------------------------
(* Layer *)

\* A per-sample scratch buffer (Ytrue, Z, Ydiff, Hgrad) with its backing slice:
\* the slice's capacity, the matrix's dimensions, and what the storage holds:
\* "zero" (as allocated), "fresh" (written since the last initOutputs) or
\* "stale" (written before it).
NilBuf == [cap |-> 0, rows |-> 0, cols |-> 0, tag |-> "zero"]

\* NextX1 with its backing slice, whose whole capacity is arr.
NilMat == [arr |-> <<>>, rows |-> 0, cols |-> 0]

\* m.At(i, j) and m.Set(i, j, v) of a mat.Dense laid out row-major on arr
At(m, i, j) == m.arr[i * m.cols + j + 1]

\* L.Ypred = base.MatDenseFirstColumnRemoved(L.NextX1): a view, never a copy
Ypred(L) ==
    [i \in Idx(L.NextX1.rows) |->
        [j \in Idx(L.NextX1.cols - 1) |-> At(L.NextX1, i, j + 1)]]

\* a gradient matrix m times the factor k/sqrt(nsq); 1 when unclipped
UnitGrad(m) == [m |-> m, k |-> 1, nsq |-> 1]

\* mat.NewDense(rows, cols, nil) and freshly made slices: zeros
MatZero(rows, cols) == [i \in Idx(rows) |-> [j \in Idx(cols) |-> 0]]

\* NewLayer(inputs, outputs, activation, optimizer, ..., rnd); l is the layer's
\* place in regr.Layers and seed the state of rnd
NewLayer(inputs, outputs, activation, seed, l) ==
    [Activation |-> activation,
     inputs |-> inputs,
     outputs |-> outputs,
     Theta |-> [i \in Idx(inputs) |->
                  [j \in Idx(outputs) |-> ThetaInit(seed, l, i, j)]],
     Grad |-> UnitGrad(MatZero(inputs, outputs)),
     Update |-> MatZero(inputs, outputs),
     X1 |-> 0,
     Ytrue |-> NilBuf, Z |-> NilBuf, Ydiff |-> NilBuf, Hgrad |-> NilBuf,
     NextX1 |-> NilMat]

\* mk of initOutputs, for a scratch buffer
mk(buf, nSamples, nOutputs) ==
    LET size == nSamples * nOutputs IN
    IF buf.cap < size
    THEN [cap |-> size, rows |-> nSamples, cols |-> nOutputs, tag |-> "zero"]
    ELSE [cap |-> buf.cap, rows |-> nSamples, cols |-> nOutputs,
          tag |-> IF buf.tag = "zero" THEN "zero" ELSE "stale"]

\* mk of initOutputs, for NextX1: the new matrix lies on the first size
\* elements of the old storage when that is large enough
mkMat(mat, nSamples, nOutputs) ==
    LET size == nSamples * nOutputs IN
    IF Len(mat.arr) < size
    THEN [arr |-> [k \in 1 .. size |-> 0], rows |-> nSamples, cols |-> nOutputs]
    ELSE [arr |-> mat.arr, rows |-> nSamples, cols |-> nOutputs]

\* SetOnes with the stride of Ypred (nOutputs) instead of NextX1's (1 + nOutputs)
SetOnesYpredStride(mat) ==
    [mat EXCEPT !.arr = [k \in 1 .. Len(mat.arr) |->
        IF k <= mat.rows * (mat.cols - 1) /\ (k - 1) % (mat.cols - 1) = 0
        THEN One ELSE mat.arr[k]]]

\* for sample := 0; sample < nSamples; sample++ { L.NextX1.Set(sample, 0, 1.) }
SetOnes(mat) ==
    [mat EXCEPT !.arr = [k \in 1 .. Len(mat.arr) |->
        IF k <= mat.rows * mat.cols /\ (k - 1) % mat.cols = 0
        THEN One ELSE mat.arr[k]]]

\* Layer.initOutputs(nSamples, nOutputs, prevLayer); prev is the previous
\* layer's place, 0 for nil
initOutputs(L, nSamples, nOutputs, prev) ==
    [L EXCEPT !.Ytrue = mk(L.Ytrue, nSamples, nOutputs),
              !.Z = mk(L.Z, nSamples, nOutputs),
              !.NextX1 = SetOnes(mkMat(L.NextX1, nSamples, 1 + nOutputs)),
              !.Ydiff = mk(L.Ydiff, nSamples, nOutputs),
              !.Hgrad = mk(L.Hgrad, nSamples, nOutputs),
              !.X1 = IF prev # 0 THEN prev ELSE L.X1]

\* NewActivation(L.Activation).Func(L.Z, L.Ypred): writes every entry of the
\* view Ypred, that is columns 1.. of NextX1
WriteYpred(mat, seed, l) ==
    [mat EXCEPT !.arr = [k \in 1 .. Len(mat.arr) |->
        IF k <= mat.rows * mat.cols /\ (k - 1) % mat.cols # 0
        THEN ActOut(seed, l, (k - 1) \div mat.cols, ((k - 1) % mat.cols) - 1)
        ELSE mat.arr[k]]]

\* One iteration of predictZH's loop: layer l (1-based place) on nSamples rows
predictLayer(L, l, nSamples, seed) ==
    LET L1 == initOutputs(L, nSamples, L.outputs, l - 1)
    IN  [L1 EXCEPT !.Z.tag = "fresh",
                   !.NextX1 = WriteYpred(L1.NextX1, seed, l)]

\* predictZH(X, nil, Y, fitting): the layers after the pass
predictZH(Ls, nSamples, seed) ==
    [l \in 1 .. Len(Ls) |-> predictLayer(Ls[l], l, nSamples, seed)]

\* allocLayers(nFeatures, nOutputs, rnd)
allocLayers(r, nFeatures, nOutputs, seed) ==
    LET H == r.HiddenLayerSizes
        prevOutputs(l) == IF l = 1 THEN nFeatures ELSE H[l - 1]
        lastActivation ==
            IF r.LossName = "cross-entropy" \/ r.LossName = "log"
            THEN "logistic" ELSE r.Activation
    IN  [l \in 1 .. (Len(H) + 1) |->
            IF l <= Len(H)
            THEN NewLayer(1 + prevOutputs(l), H[l], r.Activation, seed, l)
            ELSE NewLayer(1 + prevOutputs(l), nOutputs, lastActivation, seed, l)]

----------------------------------------------------------------------------
(* backprop *)

MatAdd(a, b, rows, cols) ==
    [i \in Idx(rows) |-> [j \in Idx(cols) |-> a[i][j] + b[i][j]]]

\* matScale{Matrix: a, Scale: c}
MatScaled(a, c, rows, cols) ==
    [i \in Idx(rows) |-> [j \in Idx(cols) |-> c * a[i][j]]]

\* matApply{Matrix: a, Func: math.Abs}
MatAbs(a, rows, cols) == [i \in Idx(rows) |-> [j \in Idx(cols) |-> Abs(a[i][j])]]

\* matApply{Matrix: a, Func: sgn}
MatSgn(a, rows, cols) == [i \in Idx(rows) |-> [j \in Idx(cols) |-> sgn(a[i][j])]]

\* matMulElem{A: a, B: b}
MatMulElem(a, b, rows, cols) ==
    [i \in Idx(rows) |-> [j \in Idx(cols) |-> a[i][j] * b[i][j]]]

\* mat.Norm(a, 2) squared: the sum of the squares of the entries
NormSq(a, rows, cols) == MatSum(MatMulElem(a, a, rows, cols), rows, cols)

\* Regularize on Theta itself, bias row included
RegularizeAllRows(Theta, grad, rows, cols, Alpha, L1Num) ==
    IF Alpha > 0
    THEN LET doL1 == L1Num > 0
             doL2 == L1Num < RatioDen
             R1 == IF doL1
                   THEN Alpha * L1Num * 2 * MatSum(MatAbs(Theta, rows, cols), rows, cols)
                   ELSE 0
             g1 == IF doL1
                   THEN MatAdd(grad, MatScaled(MatSgn(Theta, rows, cols),
                                               Alpha * RatioDen, rows, cols), rows, cols)
                   ELSE grad
             R2 == IF doL2
                   THEN Alpha * (RatioDen - L1Num)
                        * MatSum(MatMulElem(Theta, Theta, rows, cols), rows, cols)
                   ELSE 0
             g2 == IF doL2
                   THEN MatAdd(g1, MatScaled(Theta, Alpha * RatioDen, rows, cols),
                               rows, cols)
                   ELSE g1
         IN  [Grad |-> g2, R |-> R1 + R2]
    ELSE [Grad |-> grad, R |-> 0]

\* Lines 292-310: "Add regularization to cost and grad".  grad is L.Grad as
\* line 289 left it; the result is L.Grad after line 310 and the penalty R
\* that line 309 adds to J (0 when the block is skipped).
Regularize(Theta, grad, rows, cols, Alpha, L1Num) ==
    IF Alpha > 0
    THEN LET ThetaReg == MatFirstRowZeroed(Theta, rows, cols)
             doL1 == L1Num > 0
             doL2 == L1Num < RatioDen
             R1 == IF doL1
                   THEN Alpha * L1Num * 2 * MatSum(MatAbs(ThetaReg, rows, cols), rows, cols)
                   ELSE 0
             g1 == IF doL1
                   THEN MatAdd(grad, MatScaled(MatSgn(ThetaReg, rows, cols),
                                               Alpha * RatioDen, rows, cols), rows, cols)
                   ELSE grad
             R2 == IF doL2
                   THEN Alpha * (RatioDen - L1Num)
                        * MatSum(MatMulElem(ThetaReg, ThetaReg, rows, cols), rows, cols)
                   ELSE 0
             g2 == IF doL2
                   THEN MatAdd(g1, MatScaled(ThetaReg, Alpha * RatioDen, rows, cols),
                               rows, cols)
                   ELSE g1
         IN  [Grad |-> g2, R |-> R1 + R2]
    ELSE [Grad |-> grad, R |-> 0]

\* Clip scaling by GNorm/GradientClipping instead of GradientClipping/GNorm
ClipInverted(grad, rows, cols, GradientClipping, unit) ==
    IF GradientClipping > 0
    THEN LET nsq == NormSq(grad, rows, cols) IN
         IF nsq > Sq(GradientClipping * unit)
         THEN [m |-> grad, k |-> nsq, nsq |-> Sq(GradientClipping * unit) * nsq]
         ELSE UnitGrad(grad)
    ELSE UnitGrad(grad)

\* Lines 312-317: gradient clipping.  unit is RatioDen*nSamples, the number of
\* gradient units in 1.0.  GNorm = sqrt(nsq)/unit, so GNorm > GradientClipping
\* is nsq > (GradientClipping*unit)^2; the scaled gradient m*(c/GNorm) is kept
\* as m with the factor k/sqrt(nsq) = (c*unit)/sqrt(nsq).
Clip(grad, rows, cols, GradientClipping, unit) ==
    IF GradientClipping > 0
    THEN LET nsq == NormSq(grad, rows, cols) IN
         IF nsq > Sq(GradientClipping * unit)
         THEN [m |-> grad, k |-> GradientClipping * unit, nsq |-> nsq]
         ELSE UnitGrad(grad)
    ELSE UnitGrad(grad)

\* What lines 262-264 read when backprop computes the delta of layer l: which
\* layer's Hgrad line 264 multiplies by and what that buffer holds then
\* ("zero": never written since make, "stale": written by an earlier pass,
\* "fresh": written in this pass), what nextLayer.Ydiff holds, and the value
\* of nextLayer.Theta.  The output layer reads none of them.
NoReads == [HgradOf |-> 0, HgradTag |-> "none", YdiffTag |-> "none", nextTheta |-> <<>>]

\* Lines 257-266 for the non-output layer l of Ls, the layers as they are
\* when the loop reaches l.
deltaReads(Ls, l) ==
    [HgradOf |-> l, HgradTag |-> Ls[l].Hgrad.tag,
     YdiffTag |-> Ls[l + 1].Ydiff.tag, nextTheta |-> Ls[l + 1].Theta]

\* The body of backprop's loop for layer l (1-based place), lines 242-323, on
\* Ls, the layers as they are when the loop reaches l.  Returns the layer
\* after it, the penalty R, the gradient at three places (after line 289,
\* after line 310, after line 317) and what the delta step read.
backpropLayer(Ls, l, r, nSamples, seed) ==
    LET L == Ls[l]
        unit == RatioDen * nSamples
        reads == IF l = Len(Ls) THEN NoReads ELSE deltaReads(Ls, l)
        gradData == [i \in Idx(L.inputs) |->
                        [j \in Idx(L.outputs) |-> unit * DataGrad(seed, l, i, j)]]
        reg == Regularize(L.Theta, gradData, L.inputs, L.outputs, r.Alpha, r.L1Num)
        clipped == Clip(reg.Grad, L.inputs, L.outputs, r.GradientClipping, unit)
        upd == GetUpdate(clipped, L.inputs, L.outputs)
    IN  [layer |-> [L EXCEPT !.Ytrue.tag = "fresh",
                             !.Ydiff.tag = "fresh",
                             !.Hgrad.tag = "fresh",
                             !.Grad = clipped,
                             !.Update = upd,
                             !.Theta = MatAdd(L.Theta, upd, L.inputs, L.outputs)],
         trace |-> [Theta |-> L.Theta, gradData |-> gradData,
                    gradReg |-> reg.Grad, R |-> reg.R, reads |-> reads]]

RECURSIVE backpropFrom(_, _, _, _, _, _)
\* for l := outputLayer; l >= 0; l-- { ... }: the loop from layer l down, on
\* the layers Ls left by the iterations above l, whose traces are in traces
backpropFrom(Ls, traces, l, r, nSamples, seed) ==
    IF l < 1
    THEN [layers |-> Ls, trace |-> traces]
    ELSE LET res == backpropLayer(Ls, l, r, nSamples, seed)
         IN  backpropFrom([Ls EXCEPT ![l] = res.layer], <<res.trace>> \o traces,
                          l - 1, r, nSamples, seed)

\* backprop(X, Y, epoch, miniBatchLen, nSamples): layers from the output layer
\* down to layer 0.  The loss of the output layer is LossVal(seed) times
\* miniBatchPart; every layer adds its penalty R to J.
backprop(Ls, r, miniBatchLen, nSamples, seed) ==
    LET res == backpropFrom(Ls, <<>>, Len(Ls), r, nSamples, seed)
        lossTerm == LossVal(seed) * miniBatchLen * 2 * RatioDen
    IN  [layers |-> res.layers,
         trace |-> res.trace,
         J |-> lossTerm + SumTo([k \in 0 .. (Len(Ls) - 1) |-> res.trace[k + 1].R],
                                Len(Ls))]

----------------------------------------------------------------------------
(* Fit *)

NoFit == [nSamples |-> 0, nFeatures |-> 0, nOutputs |-> 0, xseed |-> 0,
          epoch |-> 0, miniBatchSize |-> 0, miniBatchStart |-> 0,
          miniBatchEnd |-> 0, Jsum |-> 0]

\* What the properties need of the calls so far: the Epochs field as the
\* running Fit found it (cfgEpochs) and as the caller configured it before the
\* first Fit (callerEpochs), the row count of the Fit before this one
\* (prevSamples, 0 when there was none), the epochs run and their losses, the
\* minibatch windows of the current epoch, the rows of the last pass.
NoHist == [cfgEpochs |-> 0, callerEpochs |-> 0, prevSamples |-> 0, epochsRun |-> 0,
           epochLoss |-> <<>>, windows |-> <<>>, lastRows |-> 0]

NoCall == [op |-> "none", Yin |-> <<>>, Y |-> <<>>, raw |-> <<>>,
           metric |-> "", ytrue |-> <<>>, ypred |-> <<>>]

CeilDiv(a, b) == (a + b - 1) \div b

\* EpochsDefault rounding the automatic count up
EpochsDefaultCeil(Epochs, nSamples) ==
    IF Epochs <= 0 THEN CeilDiv(AutoEpochBudget, nSamples) ELSE Epochs

\* Line 176-178: the epoch count Fit leaves in regr.Epochs.  1e6 / nSamples is
\* Go's division of two ints.
EpochsDefault(Epochs, nSamples) ==
    IF Epochs <= 0 THEN AutoEpochBudget \div nSamples ELSE Epochs

\* Fit, lines 169-178: up to the head of the epoch loop, whatever the
\* regressor went through before the call.
FitEnter(nSamples, nFeatures, nOutputs, xseed, tseed) ==
    /\ layers' = allocLayers(regr, nFeatures, nOutputs, tseed)
    /\ regr' = [regr EXCEPT !.J = PosInf,
                            !.Epochs = EpochsDefault(regr.Epochs, nSamples)]
    /\ fit' = [NoFit EXCEPT !.nSamples = nSamples, !.nFeatures = nFeatures,
                            !.nOutputs = nOutputs, !.xseed = xseed]
    /\ hist' = [NoHist EXCEPT !.cfgEpochs = regr.Epochs,
                              !.callerEpochs = IF pc = "idle" THEN regr.Epochs
                                               ELSE hist.callerEpochs,
                              !.prevSamples = fit.nSamples]
    /\ pc' = "epochs"
    /\ UNCHANGED <<bp, call>>

\* The first Fit of a regressor
FitBegin(nSamples, nFeatures, nOutputs, xseed, tseed) ==
    /\ pc = "idle"
    /\ FitEnter(nSamples, nFeatures, nOutputs, xseed, tseed)

\* Fit called again on a regressor whose Fit has returned
FitAgain(nSamples, nFeatures, nOutputs, xseed, tseed) ==
    /\ pc = "done"
    /\ FitEnter(nSamples, nFeatures, nOutputs, xseed, tseed)

\* ChooseMiniBatchSize without the case MiniBatchSize > nSamples
ChooseMiniBatchSizeUnchecked(MiniBatchSize, nSamples) ==
    IF MiniBatchSize > 0 THEN MiniBatchSize
    ELSE IF nSamples > AutoBatchMax THEN AutoBatchMax ELSE nSamples

\* fitEpoch, lines 192-203: the minibatch size of an epoch
ChooseMiniBatchSize(MiniBatchSize, nSamples) ==
    IF MiniBatchSize > 0 /\ MiniBatchSize <= nSamples THEN MiniBatchSize
    ELSE IF MiniBatchSize > nSamples THEN nSamples
    ELSE IF nSamples > AutoBatchMax THEN AutoBatchMax ELSE nSamples

\* Fit's loop head with epoch < regr.Epochs, then fitEpoch lines 187-205.
\* (epoch < MaxEpochs cuts the runs the model does not follow to their end.)
FitEpochBegin ==
    /\ pc = "epochs"
    /\ fit.epoch < regr.Epochs
    /\ fit.epoch < MaxEpochs
    /\ LET size == ChooseMiniBatchSize(regr.MiniBatchSize, fit.nSamples) IN
       fit' = [fit EXCEPT !.miniBatchSize = size, !.miniBatchStart = 0,
                          !.miniBatchEnd = size, !.Jsum = 0]
    /\ hist' = [hist EXCEPT !.windows = <<>>]
    /\ pc' = "batch"
    /\ UNCHANGED <<regr, layers, bp, call>>

\* NextWindow without lines 215-217
NextWindowUnclamped(start, end, len, nSamples) ==
    [start |-> start + len, end |-> end + len]

\* Lines 214-217: the next window after [start, end) of length len
NextWindow(start, end, len, nSamples) ==
    [start |-> start + len,
     end |-> IF end + len > nSamples THEN nSamples ELSE end + len]

\* One iteration of fitEpoch's minibatch loop, lines 206-218, with the
\* fitMiniBatch it calls (predictZH, then backprop).
FitMiniBatch ==
    /\ pc = "batch"
    /\ fit.miniBatchStart < fit.nSamples
    /\ LET miniBatchLen == fit.miniBatchEnd - fit.miniBatchStart
           seed == fit.xseed + fit.epoch + fit.miniBatchStart
           fwd == predictZH(layers, miniBatchLen, seed)
           bwd == backprop(fwd, regr, miniBatchLen, fit.nSamples, seed)
           nxt == NextWindow(fit.miniBatchStart, fit.miniBatchEnd,
                             miniBatchLen, fit.nSamples)
       IN  /\ layers' = bwd.layers
           /\ bp' = bwd.trace
           /\ fit' = [fit EXCEPT !.Jsum = fit.Jsum + bwd.J,
                                 !.miniBatchStart = nxt.start,
                                 !.miniBatchEnd = nxt.end]
           /\ hist' = [hist EXCEPT
                  !.windows = Append(hist.windows,
                      [start |-> fit.miniBatchStart, end |-> fit.miniBatchEnd,
                       len |-> miniBatchLen, J |-> bwd.J]),
                  !.lastRows = miniBatchLen]
    /\ UNCHANGED <<regr, pc, call>>

\* fitEpoch lines 219-223 once the minibatch loop has ended, and Fit's epoch++
FitEpochEnd ==
    /\ pc = "batch"
    /\ ~(fit.miniBatchStart < fit.nSamples)
    /\ regr' = [regr EXCEPT !.J = Fin(fit.Jsum),
                            !.JFirst = IF fit.epoch = 1 THEN Fin(fit.Jsum)
                                       ELSE regr.JFirst]
    /\ hist' = [hist EXCEPT !.epochsRun = hist.epochsRun + 1,
                            !.epochLoss = Append(hist.epochLoss, fit.Jsum)]
    /\ fit' = [fit EXCEPT !.epoch = fit.epoch + 1]
    /\ pc' = "epochs"
    /\ UNCHANGED <<layers, bp, call>>

\* Fit's loop head with epoch >= regr.Epochs: Fit returns
FitReturn ==
    /\ pc = "epochs"
    /\ ~(fit.epoch < regr.Epochs)
    /\ pc' = "done"
    /\ UNCHANGED <<regr, layers, fit, hist, bp, call>>

----------------------------------------------------------------------------
(* Predict and Score *)

\* The caller's matrix Y (rows x cols) before the call: targets 0.0 / 1.0
TargetVal(seed, i, j) == IF (seed + i + j) % 2 = 0 THEN 0 ELSE One

CallerY(rows, cols, seed) ==
    [i \in Idx(rows) |-> [j \in Idx(cols) |-> TargetVal(seed, i, j)]]

\* dst.Copy(src): the entries both matrices have
Copy(dst, drows, dcols, src, srows, scols) ==
    [i \in Idx(drows) |->
        [j \in Idx(dcols) |->
            IF i < srows /\ j < scols THEN src[i][j] ELSE dst[i][j]]]

\* predictZH with Y # nil, lines 338-380: the layers after the pass and the
\* caller's Y after line 377
predictInto(Ls, Y, rows, cols, seed) ==
    LET fwd == predictZH(Ls, rows, seed)
        last == fwd[Len(fwd)]
    IN  [layers |-> fwd,
         Y |-> Copy(Y, rows, cols, Ypred(last), last.NextX1.rows,
                    last.NextX1.cols - 1)]

\* MLPRegressor.Predict(X, Y), lines 331-334
Predict(rows, seed) ==
    /\ pc = "done"
    /\ regr.kind = "regressor"
    /\ Len(layers) > 0
    /\ LET cols == layers[Len(layers)].outputs
           Y == CallerY(rows, cols, seed)
           res == predictInto(layers, Y, rows, cols, seed)
       IN  /\ layers' = res.layers
           /\ call' = [NoCall EXCEPT !.op = "Predict", !.Yin = Y, !.Y = res.Y,
                                     !.raw = Ypred(res.layers[Len(layers)])]
    /\ hist' = [hist EXCEPT !.lastRows = rows]
    /\ UNCHANGED <<regr, pc, fit, bp>>

\* Threshold with > for >=
ThresholdStrict(y) == IF y > Half THEN One ELSE 0

\* The function MLPClassifier.Predict applies to Y, lines 413-420
Threshold(y) == IF y >= Half THEN One ELSE 0

\* MLPClassifier.Predict(X, Y), lines 411-422
ClassifierPredict(rows, seed) ==
    /\ pc = "done"
    /\ regr.kind = "classifier"
    /\ Len(layers) > 0
    /\ LET cols == layers[Len(layers)].outputs
           Y == CallerY(rows, cols, seed)
           res == predictInto(layers, Y, rows, cols, seed)
       IN  /\ layers' = res.layers
           /\ call' = [NoCall EXCEPT
                  !.op = "ClassifierPredict", !.Yin = Y,
                  !.Y = [i \in Idx(rows) |->
                            [j \in Idx(cols) |-> Threshold(res.Y[i][j])]],
                  !.raw = Ypred(res.layers[Len(layers)])]
    /\ hist' = [hist EXCEPT !.lastRows = rows]
    /\ UNCHANGED <<regr, pc, fit, bp>>

\* MLPRegressor.Score(X, Y), lines 383-392; MLPClassifier has no Score of its
\* own, so regr.Predict here is MLPRegressor.Predict for both kinds.  The
\* metric (package metrics) is observed by its name and its two arguments.
Score(rows, seed) ==
    /\ pc = "done"
    /\ Len(layers) > 0
    /\ LET cols == layers[Len(layers)].outputs
           Y == CallerY(rows, cols, seed)
           Ypred0 == MatZero(rows, cols)
           res == predictInto(layers, Y, rows, cols, seed)
       IN  /\ layers' = res.layers
           /\ call' = [NoCall EXCEPT
                  !.op = "Score", !.Yin = Y, !.Y = res.Y,
                  !.raw = Ypred(res.layers[Len(layers)]),
                  !.metric = IF regr.Loss = "square" THEN "R2Score"
                             ELSE "AccuracyScore",
                  !.ytrue = res.Y,
                  !.ypred = Ypred0]
    /\ hist' = [hist EXCEPT !.lastRows = rows]
    /\ UNCHANGED <<regr, pc, fit, bp>>

----------------------------------------------------------------------------
(* Specifications *)

Construct(kind, hidden, activation, Alpha) ==
    IF kind = "classifier"
    THEN NewMLPClassifier(hidden, activation, "", Alpha)
    ELSE NewMLPRegressor(hidden, activation, "", Alpha)

\* The state after construction and the caller's settings, each drawn from a set
InitWith(kinds, hiddens, acts, alphas, lossNames, losses, l1s, clips, epochs, mbs) ==
    /\ regr \in {Configure(Construct(k, h, a, al), ln, lo, l1, c, e, m) :
                    k \in kinds, h \in hiddens, a \in acts, al \in alphas,
                    ln \in lossNames, lo \in losses, l1 \in l1s, c \in clips,
                    e \in epochs, m \in mbs}
    /\ layers = <<>>
    /\ pc = "idle"
    /\ fit = NoFit
    /\ hist = NoHist
    /\ bp = <<>>
    /\ call = NoCall

\* The row counts of the datasets Fit is followed on: small ones; one above
\* the default minibatch size when that default applies; one above the
\* automatic epoch budget when the epoch count is automatic.
FitSamples(r) ==
    (1 .. MaxSamples)
    \cup (IF r.MiniBatchSize <= 0 THEN {AutoBatchMax + 1} ELSE {})
    \cup (IF r.Epochs <= 0 THEN {AutoEpochBudget + 1} ELSE {})

Init ==
    InitWith({"regressor", "classifier"}, {<<>>, <<2>>}, {"", "identity"}, {0},
             {"", "log"}, {""}, {0}, {0},
             0 .. MaxEpochs, {-1, 0, 1, 2, MaxSamples + 1})

FitStep ==
    \/ FitEpochBegin
    \/ FitMiniBatch
    \/ FitEpochEnd
    \/ FitReturn

Next ==
    \/ \E n \in FitSamples(regr), o \in 1 .. 2, s \in Seeds : FitBegin(n, 1, o, s, s)
    \/ FitStep

Spec == Init /\ [][Next]_vars

InitPredict ==
    InitWith({"regressor", "classifier"}, {<<>>, <<2>>}, {""}, {0},
             {""}, {"", "square"}, {0}, {0}, {1}, {0, 2})

\* Fit on the smallest and the largest small dataset, so that later passes find
\* storage both too small and larger than needed
NextPredict ==
    \/ \E n \in {1, MaxSamples}, o \in 1 .. 2 : FitBegin(n, 1, o, 0, 0)
    \/ FitStep
    \/ \E rows \in 1 .. MaxRows, s \in Seeds : Predict(rows, s)
    \/ \E rows \in 1 .. MaxRows, s \in Seeds : ClassifierPredict(rows, s)
    \/ \E rows \in 1 .. MaxRows, s \in Seeds : Score(rows, s)

SpecPredict == InitPredict /\ [][NextPredict]_vars

InitBackprop ==
    InitWith({"regressor"}, {<<>>, <<1>>}, {"identity"}, -1 .. 2,
             {""}, {""}, 0 .. RatioDen, {-1, 0, 1, 3}, {1}, {0, 2})

NextBackprop ==
    \/ \E n \in 1 .. MaxSamples, xs \in Seeds, ts \in Seeds : FitBegin(n, 1, 1, xs, ts)
    \/ FitStep

SpecBackprop == InitBackprop /\ [][NextBackprop]_vars

\* The smallest dataset whose automatic epoch count is 1
OneEpochRows == (AutoEpochBudget \div 2) + 1

\* The MiniBatchSize that splits such a dataset into about MaxBatches windows
LargeBatch == OneEpochRows \div MaxBatches

InitRefit ==
    InitWith({"regressor"}, {<<>>}, {"identity"}, {0}, {""}, {""}, {0}, {0},
             0 .. MaxEpochs, {0, LargeBatch})

\* The datasets of the first Fit: small ones and, for an automatic epoch
\* count, one too large for a single epoch and, when MiniBatchSize is large,
\* the smallest one with a count of 1
RefitSamples(r) ==
    (1 .. MaxSamples)
    \cup (IF r.Epochs <= 0 THEN {AutoEpochBudget + 1} ELSE {})
    \cup (IF r.Epochs <= 0 /\ r.MiniBatchSize >= LargeBatch THEN {OneEpochRows} ELSE {})

\* A first Fit, and at most one more Fit, on a small dataset, once the first
\* has returned
NextRefit ==
    \/ \E n \in RefitSamples(regr) : FitBegin(n, 1, 1, 0, 0)
    \/ FitStep
    \/ /\ hist.prevSamples = 0
       /\ \E n \in 1 .. MaxSamples : FitAgain(n, 1, 1, 0, 0)

SpecRefit == InitRefit /\ [][NextRefit]_vars

----------------------------------------------------------------------------
(* Properties *)

LastLayer == layers[Len(layers)]

Min(a, b) == IF a < b THEN a ELSE b

\* C1: Score calls the metric with the caller's true targets, as Y held them
\* when Score was called, and the network's predictions for X (R2Score when
\* Loss is "square", AccuracyScore otherwise).
C1_ScoreMetricArguments ==
    call.op = "Score" =>
        /\ call.metric = IF regr.Loss = "square" THEN "R2Score" ELSE "AccuracyScore"
        /\ call.ytrue = call.Yin
        /\ call.ypred = call.raw

\* C2: after allocLayers the output layer's activation is "logistic" whenever
\* the Loss field is "log" or "cross-entropy", and the configured activation
\* otherwise.
C2_OutputActivationFollowsLoss ==
    pc # "idle" =>
        LastLayer.Activation =
            IF regr.Loss = "log" \/ regr.Loss = "cross-entropy"
            THEN "logistic" ELSE regr.Activation

\* C3 as stated: a Fit called with Epochs <= 0 has run ceil(1000000/nSamples)
\* epochs when it returns, and Epochs epochs when Epochs > 0.
C3_CeilEpochCount ==
    pc = "done" =>
        hist.epochsRun = IF hist.cfgEpochs <= 0
                         THEN CeilDiv(AutoEpochBudget, fit.nSamples)
                         ELSE hist.cfgEpochs

EpochTarget ==
    IF hist.cfgEpochs <= 0
    THEN AutoEpochBudget \div fit.nSamples
    ELSE hist.cfgEpochs

\* C3 (amended): a Fit called with Epochs <= 0 on nSamples >= 1 rows runs
\* exactly floor(1000000/nSamples) epochs (none when nSamples > 1000000), and
\* exactly Epochs epochs when Epochs > 0: the loop bound is that number from
\* the first epoch on, is never exceeded, and is reached when Fit returns.
C3_FloorEpochCount ==
    pc # "idle" =>
        /\ regr.Epochs = EpochTarget
        /\ hist.epochsRun <= EpochTarget
        /\ fit.epoch = hist.epochsRun
        /\ pc = "done" => hist.epochsRun = EpochTarget

C3_Witness ==
    /\ pc = "done"
    /\ hist.cfgEpochs <= 0
    /\ fit.nSamples > AutoEpochBudget
    /\ hist.epochsRun = 0

EpochComplete == pc \in {"epochs", "done"} /\ hist.epochsRun > 0

WindowRows(w) == w.start .. (w.end - 1)

\* C4: in every epoch the windows the minibatch loop processes are non-empty,
\* contiguous and increasing, have the chosen size except possibly a shorter
\* last one, carry miniBatchLen = their row count, and, once the loop has
\* ended, put every row of [0, nSamples) in exactly one window; while the
\* loop runs the next window is non-empty and within the rows, so each
\* iteration advances and the loop ends.
C4_WindowsPartitionRows ==
    LET W == hist.windows
        n == fit.nSamples
        size == fit.miniBatchSize
    IN  pc \in {"batch", "epochs", "done"} =>
        /\ \A k \in 1 .. Len(W) :
              /\ W[k].start < W[k].end
              /\ W[k].end <= n
              /\ W[k].len = W[k].end - W[k].start
              /\ W[k].start = IF k = 1 THEN 0 ELSE W[k - 1].end
              /\ W[k].len <= size
              /\ k < Len(W) => W[k].len = size
        /\ pc = "batch" =>
              /\ fit.miniBatchStart = IF W = <<>> THEN 0 ELSE W[Len(W)].end
              /\ fit.miniBatchStart <= n
              /\ fit.miniBatchStart < n =>
                    /\ fit.miniBatchStart < fit.miniBatchEnd
                    /\ fit.miniBatchEnd <= n
        /\ EpochComplete =>
              /\ \A row \in 0 .. (n - 1) :
                    Cardinality({k \in 1 .. Len(W) : row \in WindowRows(W[k])}) = 1
              /\ SumTo([k \in 0 .. (Len(W) - 1) |-> W[k + 1].len], Len(W)) = n

C4_Witness ==
    /\ EpochComplete
    /\ Len(hist.windows) >= 2
    /\ hist.windows[Len(hist.windows)].len < fit.miniBatchSize

\* C5: when Fit has returned after at least one epoch, JFirst is the total loss
\* of the first epoch run and J the total loss of the last epoch run.
C5_JFirstIsFirstEpochLoss ==
    (pc = "done" /\ hist.epochsRun >= 1) =>
        /\ regr.JFirst = Fin(hist.epochLoss[1])
        /\ regr.J = Fin(hist.epochLoss[Len(hist.epochLoss)])

\* C6: MLPClassifier.Predict leaves only 0 and 1 in the caller's buffer: 1 where
\* the raw network output is >= 0.5 (0.5 itself included), 0 elsewhere.
C6_ClassifierOutputsLabels ==
    call.op = "ClassifierPredict" =>
        \A i \in DOMAIN call.Y : \A j \in DOMAIN call.Y[i] :
            /\ call.Y[i][j] \in {0, One}
            /\ call.Y[i][j] = One <=> 2 * call.raw[i][j] >= One

C6_Witness ==
    /\ call.op = "ClassifierPredict"
    /\ \E i \in DOMAIN call.Y : \E j \in DOMAIN call.Y[i] :
          2 * call.raw[i][j] = One /\ call.Y[i][j] = One
    /\ \E i \in DOMAIN call.Y : \E j \in DOMAIN call.Y[i] :
          2 * call.raw[i][j] < One /\ call.Y[i][j] = 0

\* C7: the minibatch size of an epoch is MiniBatchSize when it lies in
\* (0, nSamples], nSamples when MiniBatchSize > nSamples, min(nSamples, 200)
\* when MiniBatchSize <= 0; so it lies in [1, nSamples].
C7_MiniBatchSizeChoice ==
    LET n == fit.nSamples
        m == regr.MiniBatchSize
    IN  pc = "batch" =>
        /\ (0 < m /\ m <= n) => fit.miniBatchSize = m
        /\ m > n => fit.miniBatchSize = n
        /\ m <= 0 => fit.miniBatchSize = Min(n, 200)
        /\ 1 <= fit.miniBatchSize
        /\ fit.miniBatchSize <= n

C7_Witness ==
    /\ pc = "batch"
    /\ regr.MiniBatchSize <= 0
    /\ fit.nSamples > 200
    /\ fit.miniBatchSize = 200

BufShape(buf) == <<buf.rows, buf.cols>>

\* C8: after every forward pass on b rows, whatever passes came before, every
\* layer's Z, Ytrue, Ydiff, Hgrad and Ypred are b x outputs, its NextX1 is
\* b x (1 + outputs), and column 0 of NextX1 is 1.0 in every row.
C8_ForwardShapes ==
    LET b == hist.lastRows IN
    b > 0 =>
        \A l \in 1 .. Len(layers) :
            LET L == layers[l] IN
            /\ BufShape(L.Z) = <<b, L.outputs>>
            /\ BufShape(L.Ytrue) = <<b, L.outputs>>
            /\ BufShape(L.Ydiff) = <<b, L.outputs>>
            /\ BufShape(L.Hgrad) = <<b, L.outputs>>
            /\ BufShape(L.NextX1) = <<b, 1 + L.outputs>>
            /\ Len(L.NextX1.arr) >= b * (1 + L.outputs)
            /\ DOMAIN Ypred(L) = 0 .. (b - 1)
            /\ \A i \in 0 .. (b - 1) :
                  /\ DOMAIN Ypred(L)[i] = 0 .. (L.outputs - 1)
                  /\ At(L.NextX1, i, 0) = One

\* a pass on fewer rows than an earlier one, on a network of two layers: the
\* storage is reused and holds more than the matrix shows
C8_Witness ==
    /\ call.op # "none"
    /\ hist.lastRows > 0
    /\ Len(layers) = 2
    /\ \A l \in 1 .. Len(layers) :
          Len(layers[l].NextX1.arr) > layers[l].NextX1.rows * layers[l].NextX1.cols

\* C9: the regularization adds nothing to row 0 of any layer's Grad, the
\* penalty it adds to J is the penalty of rows 1.. of Theta alone, and with
\* Alpha = 0 it adds nothing to J or to any entry of Grad.
C9_BiasRowNotRegularized ==
    \A l \in 1 .. Len(bp) :
        LET t == bp[l]
            rows == layers[l].inputs
            cols == layers[l].outputs
            sumAbs == SumTo([i \in Idx(rows) |->
                          IF i = 0 THEN 0
                          ELSE SumTo([j \in Idx(cols) |-> Abs(t.Theta[i][j])], cols)],
                      rows)
            sumSq == SumTo([i \in Idx(rows) |->
                          IF i = 0 THEN 0
                          ELSE SumTo([j \in Idx(cols) |-> Sq(t.Theta[i][j])], cols)],
                      rows)
            l1 == IF regr.L1Num > 0
                  THEN regr.Alpha * regr.L1Num * 2 * sumAbs
                  ELSE 0
            l2 == IF regr.L1Num < RatioDen
                  THEN regr.Alpha * (RatioDen - regr.L1Num) * sumSq
                  ELSE 0
        IN  /\ \A j \in 0 .. (cols - 1) : t.gradReg[0][j] = t.gradData[0][j]
            /\ regr.Alpha > 0 => t.R = l1 + l2
            /\ regr.Alpha = 0 => (t.R = 0 /\ t.gradReg = t.gradData)

C9_Witness ==
    \E l \in 1 .. Len(bp) :
        /\ regr.Alpha > 0
        /\ \E j \in 0 .. (layers[l].outputs - 1) : bp[l].Theta[0][j] # 0
        /\ bp[l].gradReg # bp[l].gradData
        /\ bp[l].R > 0

\* C10: clipping leaves a layer's gradient unchanged when GradientClipping <= 0
\* or the gradient's norm does not exceed it; otherwise every entry is
\* multiplied by the one factor GradientClipping/norm, so that the norm after
\* clipping is GradientClipping.
C10_ClippingRescalesToThreshold ==
    \A l \in 1 .. Len(bp) :
        LET pre == bp[l].gradReg
            g == layers[l].Grad
            rows == layers[l].inputs
            cols == layers[l].outputs
            normSq == NormSq(pre, rows, cols)
            cu == regr.GradientClipping * RatioDen * fit.nSamples
            exceeds == regr.GradientClipping > 0 /\ normSq > cu * cu
        IN  /\ g.m = pre
            /\ g.k > 0 /\ g.nsq > 0
            /\ ~exceeds => (g.k = 1 /\ g.nsq = 1)
            /\ exceeds =>
                  /\ g.k * g.k * normSq = cu * cu * g.nsq
                  /\ NormSq(g.m, rows, cols) * g.k * g.k = cu * cu * g.nsq

C10_Witness ==
    \E l \in 1 .. Len(bp) :
        /\ regr.GradientClipping > 0
        /\ layers[l].Grad.k # 1
        /\ \E i \in 0 .. (layers[l].inputs - 1) : layers[l].Grad.m[i][0] # 0

\* C11: when Alpha > 0, regularization adds to every entry of a layer's Grad
\* Alpha*L1Ratio/nSamples * sgn(ThetaReg) + Alpha*(1-L1Ratio)/nSamples * ThetaReg
\* (ThetaReg: Theta with the bias row zeroed), the weights L1Ratio and
\* 1-L1Ratio being those of the penalties added to J.  In gradient units
\* (1/(RatioDen*nSamples)) the two factors are Alpha*L1Num and
\* Alpha*(RatioDen-L1Num).
C11_GradientCarriesRatioWeights ==
    \A l \in 1 .. Len(bp) :
        regr.Alpha > 0 =>
            LET t == bp[l]
                rows == layers[l].inputs
                cols == layers[l].outputs
                ThetaReg == MatFirstRowZeroed(t.Theta, rows, cols)
            IN  \A i \in Idx(rows), j \in Idx(cols) :
                    t.gradReg[i][j] - t.gradData[i][j]
                        = regr.Alpha * regr.L1Num * sgn(ThetaReg[i][j])
                          + regr.Alpha * (RatioDen - regr.L1Num) * ThetaReg[i][j]

\* C12: for every non-output layer l, the delta step multiplies by the
\* activation gradient of layer l+1, and every buffer it reads (the next
\* layer's Ydiff and that Hgrad) was written during the pass of the current
\* minibatch: none holds values of an earlier minibatch or the zeros of a
\* buffer never written, the first minibatch after Fit allocates the layers
\* included.
C12_DeltaReadsCurrentPass ==
    \A l \in 1 .. Len(bp) :
        l < Len(bp) =>
            /\ bp[l].reads.YdiffTag = "fresh"
            /\ bp[l].reads.HgradOf = l + 1
            /\ bp[l].reads.HgradTag = "fresh"

\* C13: within one backprop call on a network of at least two layers, the
\* Theta of layer l+1 that the delta of layer l reads is the Theta the
\* forward pass of that minibatch used for layer l+1.
C13_DeltaReadsForwardTheta ==
    \A l \in 1 .. Len(bp) :
        l < Len(bp) => bp[l].reads.nextTheta = bp[l + 1].Theta

\* C14: Fit leaves the Epochs field as the caller configured it, and a Fit
\* that follows a Fit called with Epochs <= 0 on another number of rows runs
\* the automatic epoch count of its own number of rows: that count is its
\* loop bound, and the number of epochs it has run when it returns.
C14_RefitUsesOwnAutoCount ==
    /\ pc = "done" => regr.Epochs = hist.callerEpochs
    /\ (/\ pc # "idle"
        /\ hist.prevSamples # 0
        /\ hist.prevSamples # fit.nSamples
        /\ hist.callerEpochs <= 0)
       => /\ regr.Epochs = AutoEpochBudget \div fit.nSamples
          /\ pc = "done" => hist.epochsRun = AutoEpochBudget \div fit.nSamples

====
